---- MODULE Spec2Model ----
(***************************************************************************)
(* The worker of the job pool (src/jobpool/worker.go): the run loop of a   *)
(* worker goroutine and the per-job protocol worker.process, together with *)
(* the Manager state they touch (the lock mu, the in-flight counters       *)
(* working, the handler registry tm, the store st, the wait group          *)
(* workersWg and the channel jobc).                                        *)
(*                                                                         *)
(* A Job is a record; jobs[j] is the object a *Job pointer designates and  *)
(* st[j] is what the durable store last persisted for it.  Time is the     *)
(* value time.Now().UnixNano() returns: the variable clock, which the      *)
(* action Tick advances between any two steps.                             *)
(***************************************************************************)
EXTENDS Integers, Sequences, FiniteSets

\* ---------------------------------------------------------------- bounds
MaxClock == 2           \* the clock runs over 1..MaxClock
MaxRetryLimit == 3      \* MaxRetry of a created record is in 0..MaxRetryLimit
MaxWait == 2            \* RetryWait of a created record is in 1..MaxWait
FeedCap == 2            \* records the channel jobc holds before a send blocks

Workers == {"w1", "w2"}
JobIds == {"j1", "j2"}
Topics == {"known", "unknown"}
Ranks == {0, 1}
Backoffs == {"exponential", "linear", ""}

\* calls[j] stops counting here, above every number of invocations a record
\* delivered only while Waiting can have
CallsCap == MaxRetryLimit + 2

NoWorker == "none"
NoJob == "nojob"

VARIABLES
    jobs,       \* jobs[j]: the Job object (the fields process reads and writes)
    st,         \* st[j]: the record as the store last persisted it
    working,    \* m.working: rank -> number of records in flight
    mu,         \* m.mu: the worker (or NoWorker) holding the lock
    jobc,       \* the channel of delivered records
    closed,     \* jobc has been closed
    workersWg,  \* m.workersWg: workers that have not yet called Done
    pc,         \* pc[w]: where worker w is in run/process
    cur,        \* cur[w]: the record worker w received (job in run)
    herr,       \* herr[w]: err returned by the handler p(job)
    ret,        \* ret[w]: the error process returns to run
    now,        \* now[w]: the last value w read from time.Now()
    failTime,   \* failTime[w]: the clock when the handler returned its error
    start,      \* start[w]: the record as it was when process was entered
    trace,      \* trace[w]: hooks, calls, the writing of the record ("mutate") and
                \* the decrement of this attempt, in order
    updArg,     \* updArg[w]: the record handed to st.Update in this attempt
    loaded,     \* loaded[w]: the counter value w read for working[job.Rank]--
    calls,      \* calls[j]: how often a handler was invoked with record j
    clock       \* time.Now().UnixNano()

vars == <<jobs, st, working, mu, jobc, closed, workersWg, pc, cur, herr, ret,
          now, failTime, start, trace, updArg, loaded, calls, clock>>

\* ---------------------------------------------------------------- helpers
RECURSIVE Pow2(_)
Pow2(e) == IF e <= 0 THEN 1 ELSE 2 * Pow2(e - 1)

\* int64(math.Pow(2, float64(e))): the float 2^e truncated toward zero, so
\* every negative exponent gives 0 (2^-1 = 0.5 -> 0).
PowTrunc(e) == IF e < 0 THEN 0 ELSE Pow2(e)

\* m.tm: the topics with a registered processor
tm == {"known"}

\* m.backoff: the Manager's backoff policy for the priority of a retried job
backoff(r) == r

\* the wait of worker.go:70, RetryWait*int64(math.Pow(2, float64(Retry-1)))
ExponentialWait(job) == job.RetryWait * PowTrunc(job.Retry - 1)

RetryWaitOf_Exponential(job) == ExponentialWait(job)

\* the wait of worker.go:69-73
RetryWaitOf(job) ==
    IF job.RetryBackoff = "exponential" THEN ExponentialWait(job) ELSE job.RetryWait

Found_Any(job) == TRUE

\* worker.go:46, found of p, found := w.m.tm[job.Topic]
Found(job) == job.Topic \in tm

Exhausted_Strict(job) == job.Retry > job.MaxRetry

\* worker.go:57
Exhausted(job) == job.Retry >= job.MaxRetry

FailedRecord_NoCompleted(job, t) == [job EXCEPT !.State = "Failed"]

\* worker.go:61-62
FailedRecord(job, t) == [job EXCEPT !.State = "Failed", !.Completed = t]

\* worker.go:69-73
AfterRecord(job, t) == [job EXCEPT !.After = t + RetryWaitOf(job)]

\* RetryRecord without Retry++
RetryRecord_NoIncrement(job, t) ==
    [job EXCEPT !.Priority = 0 - (t + backoff(job.Retry)),
                !.State = "Waiting"]

\* RetryRecord with the backoff keyed on the incremented Retry
RetryRecord_PostIncrement(job, t) ==
    [job EXCEPT !.Priority = 0 - (t + backoff(job.Retry + 1)),
                !.State = "Waiting",
                !.Retry = job.Retry + 1]

\* worker.go:74-76
RetryRecord(job, t) ==
    [job EXCEPT !.Priority = 0 - (t + backoff(job.Retry)),
                !.State = "Waiting",
                !.Retry = job.Retry + 1]

SucceededRecord_NoCompleted(job, t) == [job EXCEPT !.State = "Succeeded"]

\* worker.go:81-82
SucceededRecord(job, t) == [job EXCEPT !.State = "Succeeded", !.Completed = t]

InFlight(j) ==
    \/ \E i \in 1..Len(jobc) : jobc[i] = j
    \/ \E w \in Workers : cur[w] = j

\* The records the submission path creates: Waiting, not completed, with a
\* positive RetryWait and Retry <= MaxRetry.
NewJob(id) ==
    {rec \in [ID : {id}, Topic : Topics, Rank : Ranks, State : {"Waiting"},
              Retry : 0..MaxRetryLimit, MaxRetry : 0..MaxRetryLimit,
              RetryBackoff : Backoffs, RetryWait : 1..MaxWait,
              After : {0}, Priority : {0}, Completed : {0}] :
        rec.Retry <= rec.MaxRetry}

\* ---------------------------------------------------------------- initial states
InitRest ==
    /\ st = jobs
    /\ working = [r \in Ranks |-> 0]
    /\ mu = NoWorker
    /\ jobc = <<>>
    /\ closed = FALSE
    /\ workersWg = Cardinality(Workers)
    /\ pc = [w \in Workers |-> "idle"]
    /\ cur = [w \in Workers |-> NoJob]
    /\ herr = [w \in Workers |-> "nil"]
    /\ ret = [w \in Workers |-> "nil"]
    /\ now = [w \in Workers |-> 0]
    /\ failTime = [w \in Workers |-> 0]
    /\ start = [w \in Workers |-> NoJob]
    /\ trace = [w \in Workers |-> <<>>]
    /\ updArg = [w \in Workers |-> NoJob]
    /\ loaded = [w \in Workers |-> 0]
    /\ calls = [j \in DOMAIN jobs |-> 0]
    /\ clock = 1

\* one record in the store, with every combination of its parameters
Init ==
    /\ \E rec \in NewJob("j1") : jobs = [j \in {"j1"} |-> rec]
    /\ InitRest

\* one record in the store, of rank 0 and with the default backoff and the
\* shortest wait
NarrowJob(id) ==
    {rec \in NewJob(id) : rec.Rank = 0 /\ rec.RetryBackoff = "" /\ rec.RetryWait = 1}

InitNarrow ==
    /\ \E rec \in NarrowJob("j1") : jobs = [j \in {"j1"} |-> rec]
    /\ InitRest

\* a new record (Retry = 0) with the default backoff, the shortest wait and at
\* most maxRetry retries
PoolJob(id, maxRetry) ==
    {rec \in NewJob(id) : /\ rec.Retry = 0 /\ rec.MaxRetry <= maxRetry
                          /\ rec.RetryBackoff = "" /\ rec.RetryWait = 1}

\* two records in the store, of any topic: j1 of rank 0 with at most one retry,
\* j2 of the same or the other rank with no retry
InitPool ==
    /\ \E r1 \in PoolJob("j1", 1), r2 \in PoolJob("j2", 0) :
          /\ r1.Rank = 0
          /\ jobs = [j \in JobIds |-> IF j = "j1" THEN r1 ELSE r2]
    /\ InitRest

\* two records in the store: j1 has a processor, j2 has none
InitFair ==
    /\ \E r1 \in PoolJob("j1", 1), r2 \in PoolJob("j2", 0) :
          /\ r1.Rank = 0 /\ r1.Topic = "known" /\ r2.Topic = "unknown"
          /\ jobs = [j \in JobIds |-> IF j = "j1" THEN r1 ELSE r2]
    /\ InitRest

\* a record of rank 0 that has been through its first attempts and has `left`
\* retries left
RetryJob(id, left) ==
    {rec \in NewJob(id) : /\ rec.Rank = 0 /\ rec.RetryBackoff = "" /\ rec.RetryWait = 1
                          /\ rec.MaxRetry = MaxRetryLimit
                          /\ rec.Retry = MaxRetryLimit - left}

\* two such records in the store: j1 has a processor and two retries left, j2
\* has one retry left
InitRetry ==
    /\ \E r1 \in RetryJob("j1", 2), r2 \in RetryJob("j2", 1) :
          /\ r1.Topic = "known"
          /\ jobs = [j \in JobIds |-> IF j = "j1" THEN r1 ELSE r2]
    /\ InitRest

\* a record as it is created: Retry = 0, with a registered processor
FreshJob(id) == {rec \in NewJob(id) : rec.Retry = 0 /\ rec.Topic = "known"}

\* one new record in the store
InitFresh ==
    /\ \E rec \in FreshJob("j1") : jobs = [j \in {"j1"} |-> rec]
    /\ InitRest

\* ---------------------------------------------------------------- environment
\* time passes
Tick ==
    /\ clock < MaxClock
    /\ clock' = clock + 1
    /\ UNCHANGED <<loaded, calls, jobs, st, working, mu, jobc, closed, workersWg, pc, cur, herr,
                   ret, now, failTime, start, trace, updArg>>

\* Under m.mu, a record that no worker holds is counted as in flight; then it
\* is sent on jobc.
Deliver(j) ==
    /\ ~closed
    /\ mu = NoWorker
    /\ Len(jobc) < FeedCap
    /\ ~InFlight(j)
    /\ working' = [working EXCEPT ![jobs[j].Rank] = @ + 1]
    /\ jobc' = Append(jobc, j)
    /\ UNCHANGED <<loaded, calls, jobs, st, mu, closed, workersWg, pc, cur, herr, ret, now,
                   failTime, start, trace, updArg, clock>>

\* The dispatcher delivers a waiting record.
Dispatch(j) ==
    /\ jobs[j].State = "Waiting"
    /\ Deliver(j)

\* A dispatcher that also hands a record to the workers again after it has
\* succeeded or failed: process is then called on a record in a terminal state.
Redeliver(j) ==
    /\ jobs[j].State # "Waiting"
    /\ Deliver(j)

\* close(jobc)
Close ==
    /\ ~closed
    /\ closed' = TRUE
    /\ UNCHANGED <<loaded, calls, jobs, st, working, mu, jobc, workersWg, pc, cur, herr, ret,
                   now, failTime, start, trace, updArg, clock>>

\* ---------------------------------------------------------------- worker.run
\* runReceive leaving the record on the channel for the next receiver
runReceive_NoDequeue(w) ==
    /\ pc[w] = "idle"
    /\ jobc # <<>>
    /\ cur' = [cur EXCEPT ![w] = Head(jobc)]
    /\ start' = [start EXCEPT ![w] = jobs[Head(jobc)]]
    /\ pc' = [pc EXCEPT ![w] = "lock"]
    /\ UNCHANGED <<loaded, calls, jobs, st, working, mu, jobc, closed, workersWg, herr, ret, now,
                   failTime, trace, updArg, clock>>

\* for job := range w.jobc: receive the next record and enter process
runReceive(w) ==
    /\ pc[w] = "idle"
    /\ jobc # <<>>
    /\ cur' = [cur EXCEPT ![w] = Head(jobc)]
    /\ jobc' = Tail(jobc)
    /\ start' = [start EXCEPT ![w] = jobs[Head(jobc)]]
    /\ pc' = [pc EXCEPT ![w] = "lock"]
    /\ UNCHANGED <<loaded, calls, jobs, st, working, mu, closed, workersWg, herr, ret, now,
                   failTime, trace, updArg, clock>>

\* runLog leaving the loop when process returned an error
runLog_Fatal(w) ==
    /\ pc[w] = "returned"
    /\ pc' = [pc EXCEPT ![w] = IF ret[w] = "nil" THEN "idle" ELSE "done"]
    /\ workersWg' = IF ret[w] = "nil" THEN workersWg ELSE workersWg - 1
    /\ cur' = [cur EXCEPT ![w] = NoJob]
    /\ start' = [start EXCEPT ![w] = NoJob]
    /\ trace' = [trace EXCEPT ![w] = <<>>]
    /\ herr' = [herr EXCEPT ![w] = "nil"]
    /\ ret' = [ret EXCEPT ![w] = "nil"]
    /\ now' = [now EXCEPT ![w] = 0]
    /\ failTime' = [failTime EXCEPT ![w] = 0]
    /\ updArg' = [updArg EXCEPT ![w] = NoJob]
    /\ UNCHANGED <<loaded, calls, jobs, st, working, mu, jobc, closed, clock>>

\* runLog with Done called at the end of every process call
runLog_Done(w) ==
    /\ pc[w] = "returned"
    /\ pc' = [pc EXCEPT ![w] = "idle"]
    /\ workersWg' = workersWg - 1
    /\ cur' = [cur EXCEPT ![w] = NoJob]
    /\ start' = [start EXCEPT ![w] = NoJob]
    /\ trace' = [trace EXCEPT ![w] = <<>>]
    /\ herr' = [herr EXCEPT ![w] = "nil"]
    /\ ret' = [ret EXCEPT ![w] = "nil"]
    /\ now' = [now EXCEPT ![w] = 0]
    /\ failTime' = [failTime EXCEPT ![w] = 0]
    /\ updArg' = [updArg EXCEPT ![w] = NoJob]
    /\ UNCHANGED <<loaded, calls, jobs, st, working, mu, jobc, closed, clock>>

\* process has returned: log its error, if any, and go back to the range loop
\* (the locals of the finished call are dropped)
runLog(w) ==
    /\ pc[w] = "returned"
    /\ pc' = [pc EXCEPT ![w] = "idle"]
    /\ cur' = [cur EXCEPT ![w] = NoJob]
    /\ start' = [start EXCEPT ![w] = NoJob]
    /\ trace' = [trace EXCEPT ![w] = <<>>]
    /\ herr' = [herr EXCEPT ![w] = "nil"]
    /\ ret' = [ret EXCEPT ![w] = "nil"]
    /\ now' = [now EXCEPT ![w] = 0]
    /\ failTime' = [failTime EXCEPT ![w] = 0]
    /\ updArg' = [updArg EXCEPT ![w] = NoJob]
    /\ UNCHANGED <<loaded, calls, jobs, st, working, mu, jobc, closed, workersWg, clock>>

\* the range loop ends on the closed, drained channel; defer workersWg.Done()
runDone(w) ==
    /\ pc[w] = "idle"
    /\ jobc = <<>>
    /\ closed
    /\ pc' = [pc EXCEPT ![w] = "done"]
    /\ workersWg' = workersWg - 1
    /\ UNCHANGED <<loaded, calls, jobs, st, working, mu, jobc, closed, cur, herr, ret, now,
                   failTime, start, trace, updArg, clock>>

\* ---------------------------------------------------------------- worker.process
\* w.m.mu.Lock() before the lookup
processLock(w) ==
    /\ pc[w] = "lock"
    /\ mu = NoWorker
    /\ mu' = w
    /\ pc' = [pc EXCEPT ![w] = "find"]
    /\ UNCHANGED <<loaded, calls, jobs, st, working, jobc, closed, workersWg, cur, herr, ret, now,
                   failTime, start, trace, updArg, clock>>

\* processFind with the decrement written at the end of process instead of
\* deferred: the early return skips it
processFind_NoDefer(w) ==
    /\ pc[w] = "find"
    /\ mu' = NoWorker
    /\ IF Found(jobs[cur[w]])
         THEN /\ pc' = [pc EXCEPT ![w] = "call"]
              /\ ret' = ret
         ELSE /\ pc' = [pc EXCEPT ![w] = "returned"]
              /\ ret' = [ret EXCEPT ![w] = "noprocessor"]
    /\ UNCHANGED <<loaded, calls, jobs, st, working, jobc, closed, workersWg, cur, herr, now,
                   failTime, start, trace, updArg, clock>>

\* processFind without the Unlock after the lookup
processFind_KeepLock(w) ==
    /\ pc[w] = "find"
    /\ IF Found(jobs[cur[w]])
         THEN /\ pc' = [pc EXCEPT ![w] = "call"]
              /\ mu' = mu
              /\ ret' = ret
         ELSE /\ pc' = [pc EXCEPT ![w] = "deferLock"]
              /\ mu' = NoWorker
              /\ ret' = [ret EXCEPT ![w] = "noprocessor"]
    /\ UNCHANGED <<loaded, calls, jobs, st, working, jobc, closed, workersWg, cur, herr, now,
                   failTime, start, trace, updArg, clock>>

\* p, found := w.m.tm[job.Topic]; Unlock; if !found return the error
processFind(w) ==
    /\ pc[w] = "find"
    /\ mu' = NoWorker
    /\ IF Found(jobs[cur[w]])
         THEN /\ pc' = [pc EXCEPT ![w] = "call"]
              /\ ret' = ret
         ELSE /\ pc' = [pc EXCEPT ![w] = "deferLock"]
              /\ ret' = [ret EXCEPT ![w] = "noprocessor"]
    /\ UNCHANGED <<loaded, calls, jobs, st, working, jobc, closed, workersWg, cur, herr, now,
                   failTime, start, trace, updArg, clock>>

\* testJobStarted(), then the call p(job) begins
processCall(w) ==
    /\ pc[w] = "call"
    /\ trace' = [trace EXCEPT ![w] = Append(@, "started")]
    /\ calls' = [calls EXCEPT ![cur[w]] = IF @ < CallsCap THEN @ + 1 ELSE @]
    /\ pc' = [pc EXCEPT ![w] = "handler"]
    /\ UNCHANGED <<loaded, jobs, st, working, mu, jobc, closed, workersWg, cur, herr, ret,
                   now, failTime, start, updArg, clock>>

\* where process goes when p(job) has returned e (worker.go:56-57, 80)
Branch(job, e) ==
    IF e = "nil" THEN "success"
    ELSE IF Exhausted(job) THEN "failed" ELSE "retry"

\* p(job) returns e
handlerReturn(w, e) ==
    /\ pc[w] = "handler"
    /\ herr' = [herr EXCEPT ![w] = e]
    /\ failTime' = [failTime EXCEPT ![w] = IF e = "nil" THEN 0 ELSE clock]
    /\ trace' = [trace EXCEPT ![w] = Append(@, "handler")]
    /\ pc' = [pc EXCEPT ![w] = Branch(jobs[cur[w]], e)]
    /\ UNCHANGED <<loaded, calls, jobs, st, working, mu, jobc, closed, workersWg, cur, ret, now,
                   start, updArg, clock>>

\* worker.go:59-62: log, testJobFailed(), State = Failed, Completed = now
processFailed(w) ==
    /\ pc[w] = "failed"
    /\ trace' = [trace EXCEPT ![w] = @ \o <<"failed", "mutate">>]
    /\ now' = [now EXCEPT ![w] = clock]
    /\ jobs' = [jobs EXCEPT ![cur[w]] = FailedRecord(@, clock)]
    /\ pc' = [pc EXCEPT ![w] = "update"]
    /\ UNCHANGED <<loaded, calls, st, working, mu, jobc, closed, workersWg, cur, herr, ret,
                   failTime, start, updArg, clock>>

\* worker.go:67-73: log, testJobRetry(), After = now + wait
processRetryAfter(w) ==
    /\ pc[w] = "retry"
    /\ trace' = [trace EXCEPT ![w] = Append(@, "retry")]
    /\ now' = [now EXCEPT ![w] = clock]
    /\ jobs' = [jobs EXCEPT ![cur[w]] = AfterRecord(@, clock)]
    /\ pc' = [pc EXCEPT ![w] = "retryPriority"]
    /\ UNCHANGED <<loaded, calls, st, working, mu, jobc, closed, workersWg, cur, herr, ret,
                   failTime, start, updArg, clock>>

\* worker.go:74-76: Priority from a second reading of the clock, State, Retry++
processRetryPriority(w) ==
    /\ pc[w] = "retryPriority"
    /\ trace' = [trace EXCEPT ![w] = Append(@, "mutate")]
    /\ now' = [now EXCEPT ![w] = clock]
    /\ jobs' = [jobs EXCEPT ![cur[w]] = RetryRecord(@, clock)]
    /\ pc' = [pc EXCEPT ![w] = "update"]
    /\ UNCHANGED <<loaded, calls, st, working, mu, jobc, closed, workersWg, cur, herr, ret,
                   failTime, start, updArg, clock>>

\* worker.go:81-82: State = Succeeded, Completed = now
processSucceeded(w) ==
    /\ pc[w] = "success"
    /\ trace' = [trace EXCEPT ![w] = Append(@, "mutate")]
    /\ now' = [now EXCEPT ![w] = clock]
    /\ jobs' = [jobs EXCEPT ![cur[w]] = SucceededRecord(@, clock)]
    /\ pc' = [pc EXCEPT ![w] = "update"]
    /\ UNCHANGED <<loaded, calls, st, working, mu, jobc, closed, workersWg, cur, herr, ret,
                   failTime, start, updArg, clock>>

AfterUpdate_IgnoreError(he, e) == IF he = "nil" THEN "hookSucceeded" ELSE "deferLock"

\* where process goes after st.Update returned e: the failure paths return e,
\* the success path returns e if it is an error and else goes on to the hook
AfterUpdate(he, e) == IF he = "nil" /\ e = "nil" THEN "hookSucceeded" ELSE "deferLock"

\* storeUpdate with the State of the record put back when the store failed
storeUpdate_Rollback(w, e) ==
    /\ pc[w] = "update"
    /\ trace' = [trace EXCEPT ![w] = Append(@, "update")]
    /\ updArg' = [updArg EXCEPT ![w] = jobs[cur[w]]]
    /\ st' = IF e = "nil" THEN [st EXCEPT ![cur[w]] = jobs[cur[w]]] ELSE st
    /\ jobs' = IF e = "nil" THEN jobs
               ELSE [jobs EXCEPT ![cur[w]].State = start[w].State]
    /\ ret' = [ret EXCEPT ![w] = e]
    /\ pc' = [pc EXCEPT ![w] = AfterUpdate(herr[w], e)]
    /\ UNCHANGED <<loaded, calls, working, mu, jobc, closed, workersWg, cur, herr, now,
                   failTime, start, clock>>

\* storeUpdate with a second call of Update when the first one failed
storeUpdate_Twice(w, e) ==
    /\ pc[w] = "update"
    /\ trace' = [trace EXCEPT ![w] = IF e = "nil" THEN Append(@, "update")
                                     ELSE @ \o <<"update", "update">>]
    /\ updArg' = [updArg EXCEPT ![w] = jobs[cur[w]]]
    /\ st' = IF e = "nil" THEN [st EXCEPT ![cur[w]] = jobs[cur[w]]] ELSE st
    /\ ret' = [ret EXCEPT ![w] = e]
    /\ pc' = [pc EXCEPT ![w] = AfterUpdate(herr[w], e)]
    /\ UNCHANGED <<loaded, calls, jobs, working, mu, jobc, closed, workersWg, cur, herr,
                   now, failTime, start, clock>>

\* w.m.st.Update(ctx, job) returns e; the store keeps the record unless it failed
storeUpdate(w, e) ==
    /\ pc[w] = "update"
    /\ trace' = [trace EXCEPT ![w] = Append(@, "update")]
    /\ updArg' = [updArg EXCEPT ![w] = jobs[cur[w]]]
    /\ st' = IF e = "nil" THEN [st EXCEPT ![cur[w]] = jobs[cur[w]]] ELSE st
    /\ ret' = [ret EXCEPT ![w] = e]
    /\ pc' = [pc EXCEPT ![w] = AfterUpdate(herr[w], e)]
    /\ UNCHANGED <<loaded, calls, jobs, working, mu, jobc, closed, workersWg, cur, herr, now,
                   failTime, start, clock>>

\* worker.go:87-88: testJobSucceeded(); return nil
processHookSucceeded(w) ==
    /\ pc[w] = "hookSucceeded"
    /\ trace' = [trace EXCEPT ![w] = Append(@, "succeeded")]
    /\ pc' = [pc EXCEPT ![w] = "deferLock"]
    /\ UNCHANGED <<loaded, calls, jobs, st, working, mu, jobc, closed, workersWg, cur, herr, ret,
                   now, failTime, start, updArg, clock>>

\* deferLock without the lock: the decrement is not a critical section
deferLock_NoLock(w) ==
    /\ pc[w] = "deferLock"
    /\ mu' = mu
    /\ pc' = [pc EXCEPT ![w] = "deferRead"]
    /\ UNCHANGED <<loaded, calls, jobs, st, working, jobc, closed, workersWg, cur, herr, ret, now,
                   failTime, start, trace, updArg, clock>>

\* the deferred function: w.m.mu.Lock()
deferLock(w) ==
    /\ pc[w] = "deferLock"
    /\ mu = NoWorker
    /\ mu' = w
    /\ pc' = [pc EXCEPT ![w] = "deferRead"]
    /\ UNCHANGED <<loaded, calls, jobs, st, working, jobc, closed, workersWg, cur, herr, ret, now,
                   failTime, start, trace, updArg, clock>>

\* the deferred function: w.m.working[job.Rank]-- reads the counter ...
deferRead(w) ==
    /\ pc[w] = "deferRead"
    /\ loaded' = [loaded EXCEPT ![w] = working[jobs[cur[w]].Rank]]
    /\ pc' = [pc EXCEPT ![w] = "deferDecrement"]
    /\ UNCHANGED <<calls, jobs, st, working, mu, jobc, closed, workersWg, cur, herr, ret,
                   now, failTime, start, trace, updArg, clock>>

\* Decrement on the counter of rank 0, whatever the rank of the record
Decrement_Rank0(wk, rank, n) == [wk EXCEPT ![0] = n - 1]

\* the counters after w.m.working[rank]-- has written back n - 1
Decrement(wk, rank, n) == [wk EXCEPT ![rank] = n - 1]

\* ... and writes it back one lower; Unlock; process returns
deferDecrement(w) ==
    /\ pc[w] = "deferDecrement"
    /\ working' = Decrement(working, jobs[cur[w]].Rank, loaded[w])
    /\ loaded' = [loaded EXCEPT ![w] = 0]
    /\ trace' = [trace EXCEPT ![w] = Append(@, "decrement")]
    /\ mu' = NoWorker
    /\ pc' = [pc EXCEPT ![w] = "returned"]
    /\ UNCHANGED <<calls, jobs, st, jobc, closed, workersWg, cur, herr, ret, now,
                   failTime, start, updArg, clock>>

\* ---------------------------------------------------------------- specification
Errors == {"nil", "error"}

Next ==
    \/ Tick
    \/ Close
    \/ \E j \in DOMAIN jobs : Dispatch(j)
    \/ \E w \in Workers : runReceive(w)
    \/ \E w \in Workers : runLog(w)
    \/ \E w \in Workers : runDone(w)
    \/ \E w \in Workers : processLock(w)
    \/ \E w \in Workers : processFind(w)
    \/ \E w \in Workers : processCall(w)
    \/ \E w \in Workers, e \in Errors : handlerReturn(w, e)
    \/ \E w \in Workers : processFailed(w)
    \/ \E w \in Workers : processRetryAfter(w)
    \/ \E w \in Workers : processRetryPriority(w)
    \/ \E w \in Workers : processSucceeded(w)
    \/ \E w \in Workers, e \in Errors : storeUpdate(w, e)
    \/ \E w \in Workers : processHookSucceeded(w)
    \/ \E w \in Workers : deferLock(w)
    \/ \E w \in Workers : deferRead(w)
    \/ \E w \in Workers : deferDecrement(w)

Spec == Init /\ [][Next]_vars

\* the pool of workers sharing two records
SpecPool == InitPool /\ [][Next]_vars

\* the steps of worker w: its goroutine in run and process, the return of the
\* handler it called and the return of the Update it called
WorkerStep(w) ==
    \/ runReceive(w) \/ runLog(w) \/ runDone(w)
    \/ processLock(w) \/ processFind(w) \/ processCall(w)
    \/ \E e \in Errors : handlerReturn(w, e)
    \/ processFailed(w) \/ processRetryAfter(w) \/ processRetryPriority(w)
    \/ processSucceeded(w)
    \/ \E e \in Errors : storeUpdate(w, e)
    \/ processHookSucceeded(w)
    \/ deferLock(w) \/ deferRead(w) \/ deferDecrement(w)

\* The Go scheduler runs every goroutine that can run, and every handler call
\* and Update call returns.
Fairness == \A w \in Workers : WF_vars(WorkerStep(w))

\* the pool of workers, each of them scheduled fairly
SpecFair == InitFair /\ [][Next]_vars /\ Fairness

\* the pool of workers on two records that are retried, while the channel is
\* open
NextRetry ==
    \/ Tick
    \/ \E j \in DOMAIN jobs : Dispatch(j)
    \/ \E w \in Workers : runReceive(w)
    \/ \E w \in Workers : runLog(w)
    \/ \E w \in Workers : processLock(w)
    \/ \E w \in Workers : processFind(w)
    \/ \E w \in Workers : processCall(w)
    \/ \E w \in Workers, e \in Errors : handlerReturn(w, e)
    \/ \E w \in Workers : processFailed(w)
    \/ \E w \in Workers : processRetryAfter(w)
    \/ \E w \in Workers : processRetryPriority(w)
    \/ \E w \in Workers : processSucceeded(w)
    \/ \E w \in Workers, e \in Errors : storeUpdate(w, e)
    \/ \E w \in Workers : processHookSucceeded(w)
    \/ \E w \in Workers : deferLock(w)
    \/ \E w \in Workers : deferRead(w)
    \/ \E w \in Workers : deferDecrement(w)

SpecRetry == InitRetry /\ [][NextRetry]_vars

\* the workers on a new record, with a store whose Update always succeeds
NextFresh ==
    \/ Tick
    \/ Close
    \/ \E j \in DOMAIN jobs : Dispatch(j)
    \/ \E w \in Workers : runReceive(w)
    \/ \E w \in Workers : runLog(w)
    \/ \E w \in Workers : runDone(w)
    \/ \E w \in Workers : processLock(w)
    \/ \E w \in Workers : processFind(w)
    \/ \E w \in Workers : processCall(w)
    \/ \E w \in Workers, e \in Errors : handlerReturn(w, e)
    \/ \E w \in Workers : processFailed(w)
    \/ \E w \in Workers : processRetryAfter(w)
    \/ \E w \in Workers : processRetryPriority(w)
    \/ \E w \in Workers : processSucceeded(w)
    \/ \E w \in Workers : storeUpdate(w, "nil")
    \/ \E w \in Workers : processHookSucceeded(w)
    \/ \E w \in Workers : deferLock(w)
    \/ \E w \in Workers : deferRead(w)
    \/ \E w \in Workers : deferDecrement(w)

SpecFresh == InitFresh /\ [][NextFresh]_vars

\* the workers under a dispatcher that delivers records in any state
NextRedeliver ==
    \/ Next
    \/ \E j \in DOMAIN jobs : Redeliver(j)

SpecRedeliver == InitNarrow /\ [][NextRedeliver]_vars

\* ---------------------------------------------------------------- properties
Count(seq, x) == Cardinality({i \in 1..Len(seq) : seq[i] = x})
Has(seq, x) == \E i \in 1..Len(seq) : seq[i] = x

\* the positions of a worker inside a call of process
ProcessPcs ==
    {"lock", "find", "call", "handler", "failed", "retry", "retryPriority",
     "success", "update", "hookSucceeded", "deferLock", "deferRead",
     "deferDecrement"}

\* process has returned to run, which has not yet taken the next record
Returned(w) == pc[w] = "returned"

HandlerFailed(w) == Returned(w) /\ herr[w] = "error"
HandlerSucceeded(w) == Returned(w) /\ herr[w] = "nil" /\ Has(trace[w], "handler")

\* C1: a call of process leaves only through the deferred function, and the
\* step that returns from it takes exactly one from working[Rank] of its
\* record; no earlier step of the call touches the counters.  So the counter
\* is decremented exactly once per call, whatever the exit path.
C1_DecrementedExactlyOnce ==
    [][\A w \in Workers :
         /\ (pc[w] \in ProcessPcs /\ pc'[w] = "returned") =>
               /\ working' = [working EXCEPT ![start[w].Rank] = @ - 1]
               /\ Count(trace'[w], "decrement") = 1
         /\ (pc[w] \in ProcessPcs /\ pc'[w] # "returned") =>
               /\ pc'[w] \in ProcessPcs
               /\ Count(trace'[w], "decrement") = 0
               /\ (pc'[w] # pc[w] => working' = working)]_vars

\* process returned after the handler failed with no retry left and the store
\* failed too, while the other worker is still inside process with a record
\* of the same rank: the counter of that rank went from 2 to 1
C1_Witness ==
    \E w \in Workers, v \in Workers :
        /\ HandlerFailed(w) /\ ret[w] = "error"
        /\ Exhausted(start[w])
        /\ Count(trace[w], "decrement") = 1
        /\ v # w /\ pc[v] = "handler"
        /\ start[v].Rank = start[w].Rank
        /\ working[start[w].Rank] = 1

\* C2: after a handler failure with Retry < MaxRetry the record is Waiting,
\* Retry is one more than before and After is later than the failure.
C2_RetryAfterLater ==
    \A w \in Workers :
        (HandlerFailed(w) /\ start[w].Retry < start[w].MaxRetry) =>
            /\ jobs[cur[w]].State = "Waiting"
            /\ jobs[cur[w]].Retry = start[w].Retry + 1
            /\ jobs[cur[w]].After > failTime[w]

\* C3: after a handler failure with Retry >= MaxRetry the record is Failed,
\* Completed is the time read then, Retry is unchanged and Update was called
\* once, with that record.
C3_TerminalFailure ==
    \A w \in Workers :
        (HandlerFailed(w) /\ start[w].Retry >= start[w].MaxRetry) =>
            /\ jobs[cur[w]].State = "Failed"
            /\ jobs[cur[w]].Completed = now[w]
            /\ jobs[cur[w]].Completed >= failTime[w]
            /\ jobs[cur[w]].Completed > 0
            /\ jobs[cur[w]].Retry = start[w].Retry
            /\ Count(trace[w], "update") = 1
            /\ updArg[w] = jobs[cur[w]]

\* a record at its last retry failed again, and the store has it as Failed
C3_Witness ==
    \E w \in Workers :
        /\ HandlerFailed(w)
        /\ start[w].Retry = start[w].MaxRetry /\ start[w].Retry > 0
        /\ jobs[cur[w]].State = "Failed"
        /\ st[cur[w]] = jobs[cur[w]]

\* C4: after a handler success the record is Succeeded, Completed is the time
\* read then and Update was called once, with that record; the succeeded hook
\* has run only if Update returned no error.
C4_Success ==
    \A w \in Workers :
        HandlerSucceeded(w) =>
            /\ jobs[cur[w]].State = "Succeeded"
            /\ jobs[cur[w]].Completed = now[w]
            /\ jobs[cur[w]].Completed > 0
            /\ Count(trace[w], "update") = 1
            /\ updArg[w] = jobs[cur[w]]
            /\ (Has(trace[w], "succeeded") => ret[w] = "nil")

\* the handler succeeded, the store took the record and the hook ran
C4_Witness ==
    \E w \in Workers :
        /\ HandlerSucceeded(w)
        /\ ret[w] = "nil"
        /\ st[cur[w]] = jobs[cur[w]]
        /\ trace[w] = <<"started", "handler", "mutate", "update", "succeeded", "decrement">>

\* C5: with no processor for the Topic, process returns the "no processor"
\* error, the record is as it was received, and neither the handler, Update
\* nor any hook was called: the attempt consists of the decrement alone.
C5_NoProcessor ==
    \A w \in Workers :
        (Returned(w) /\ start[w].Topic \notin tm) =>
            /\ ret[w] = "noprocessor"
            /\ jobs[cur[w]] = start[w]
            /\ jobs[cur[w]].State = "Waiting"
            /\ trace[w] = <<"decrement">>
            /\ updArg[w] = NoJob

\* process returned for a record of the unregistered topic
C5_Witness ==
    \E w \in Workers :
        /\ Returned(w)
        /\ start[w].Topic = "unknown"
        /\ ret[w] = "noprocessor"

\* the State process leaves in a record: worker.go:61, 75, 81
Outcome(w) ==
    IF herr[w] = "nil" THEN "Succeeded"
    ELSE IF Exhausted(start[w]) THEN "Failed" ELSE "Waiting"

\* C6 as claimed: once a record is Succeeded or Failed, no step changes its
\* State, whatever process call follows.
C6_TerminalNeverChanges ==
    [][\A j \in DOMAIN jobs :
         jobs[j].State # "Waiting" => jobs'[j].State = jobs[j].State]_vars

\* C6 as amended: State changes only inside an attempt, at most once, from the
\* State the record was delivered with to the one the handler outcome decides
\* (process never reads State).  A record delivered Waiting therefore only
\* goes Waiting->Waiting, Waiting->Succeeded or Waiting->Failed, and a terminal
\* record changes State only if it is delivered again.
C6_ChangesFromDeliveredState ==
    [][\A j \in DOMAIN jobs :
         jobs'[j].State # jobs[j].State =>
            \E w \in Workers :
                /\ cur[w] = j
                /\ jobs[j].State = start[w].State
                /\ jobs'[j].State = Outcome(w)]_vars

\* a record delivered again after it succeeded has been moved to Failed
C6_Witness ==
    \E w \in Workers :
        /\ pc[w] \in ProcessPcs \cup {"returned"}
        /\ start[w].State = "Succeeded"
        /\ jobs[cur[w]].State = "Failed"

\* C7: a record has Completed set exactly when it is Succeeded or Failed.
\* (State and Completed are written by adjacent statements of the one
\* goroutine that holds the record, here one step.)
C7_CompletedIffTerminal ==
    \A j \in DOMAIN jobs :
        (jobs[j].Completed # 0) <=> (jobs[j].State \in {"Succeeded", "Failed"})

\* a record that was retried at least once has then succeeded
C7_Witness ==
    \E w \in Workers :
        /\ HandlerSucceeded(w)
        /\ jobs[cur[w]].Priority # 0
        /\ jobs[cur[w]].Completed # 0

\* C8: Retry never exceeds MaxRetry, and a handler failure met with
\* Retry >= MaxRetry leaves the record Failed, not Waiting.
C8_RetryBounded ==
    /\ \A j \in DOMAIN jobs : jobs[j].Retry <= jobs[j].MaxRetry
    /\ \A w \in Workers :
          (/\ pc[w] \in {"update", "deferLock", "deferRead", "deferDecrement", "returned"}
           /\ herr[w] = "error"
           /\ start[w].Retry >= start[w].MaxRetry) => jobs[cur[w]].State = "Failed"

\* a failure used the last retry: the record waits with Retry = MaxRetry
C8_Witness ==
    \E w \in Workers :
        /\ HandlerFailed(w)
        /\ start[w].Retry + 1 = start[w].MaxRetry
        /\ jobs[cur[w]].State = "Waiting"
        /\ jobs[cur[w]].Retry = jobs[cur[w]].MaxRetry

\* C9: with exponential backoff the wait added to the time read is
\* RetryWait * 2^(Retry-1), Retry being the value before the increment;
\* stated without fractions as 2 * wait = RetryWait * 2^Retry.
C9_ExponentialWait ==
    \A w \in Workers :
        (pc[w] = "retryPriority" /\ jobs[cur[w]].RetryBackoff = "exponential") =>
            2 * (jobs[cur[w]].After - now[w])
                = jobs[cur[w]].RetryWait * Pow2(jobs[cur[w]].Retry)

\* C10: with any other backoff the wait added to the time read is RetryWait.
C10_FlatWait ==
    \A w \in Workers :
        (pc[w] = "retryPriority" /\ jobs[cur[w]].RetryBackoff # "exponential") =>
            jobs[cur[w]].After - now[w] = jobs[cur[w]].RetryWait

\* a record on its third failure, with linear backoff, has After set
C10_Witness ==
    \E w \in Workers :
        /\ pc[w] = "retryPriority"
        /\ jobs[cur[w]].RetryBackoff = "linear"
        /\ jobs[cur[w]].Retry = 2
        /\ jobs[cur[w]].After = clock + jobs[cur[w]].RetryWait

\* C11: no error is fatal to a worker.  From the return of process, whatever
\* it returned, run only goes back to the range statement; run ends (Done)
\* only from the range statement on a closed and drained channel; and a worker
\* whose process call returned an error gets back to the range statement, and
\* takes a record waiting on the channel unless the other workers drain it.
C11_ErrorsNotFatal ==
    /\ [][\A w \in Workers :
            /\ (pc[w] = "returned" /\ pc'[w] # "returned") => pc'[w] = "idle"
            /\ (pc'[w] = "done" /\ pc[w] # "done") =>
                  (pc[w] = "idle" /\ closed /\ jobc = <<>>)]_vars
    /\ \A w \in Workers :
          (pc[w] = "returned" /\ ret[w] # "nil") ~> (pc[w] = "idle")
    /\ \A w \in Workers :
          (pc[w] = "returned" /\ ret[w] # "nil" /\ jobc # <<>>)
              ~> (pc[w] = "lock" \/ jobc = <<>>)

\* process returned an error while the next record waits on the open channel
C11_Witness ==
    \E w \in Workers :
        /\ pc[w] = "returned"
        /\ ret[w] \in {"error", "noprocessor"}
        /\ jobc # <<>>
        /\ ~closed

\* C12: once the channel is closed every worker ends: it finishes its attempt,
\* leaves the loop and calls Done, so the wait group reaches 0.  Done is
\* called once per worker, by a worker at the range statement and not inside
\* process, and a worker that called it takes no further step.
C12_Shutdown ==
    /\ closed ~> (workersWg = 0 /\ \A w \in Workers : pc[w] = "done")
    /\ [][/\ workersWg' # workersWg =>
                \E w \in Workers :
                    /\ pc[w] = "idle" /\ pc'[w] = "done"
                    /\ workersWg' = workersWg - 1
          /\ \A w \in Workers : pc[w] = "done" => pc'[w] = "done"]_vars
    /\ [](workersWg = Cardinality({w \in Workers : pc[w] # "done"}))

\* the channel is closed with a record still on it while a worker is inside a
\* handler call
C12_Witness ==
    \E w \in Workers :
        /\ closed
        /\ jobc # <<>>
        /\ pc[w] = "handler"
        /\ workersWg = Cardinality(Workers)

\* C13: when Update failed (the store does not hold the record handed to it),
\* process returns the error, Update was called once in the attempt, and the
\* record in memory is still the one handed to Update, with the State of the
\* outcome, while the store still has the State the record was delivered with.
C13_UpdateError ==
    \A w \in Workers :
        (Returned(w) /\ Has(trace[w], "update") /\ st[cur[w]] # updArg[w]) =>
            /\ ret[w] = "error"
            /\ Count(trace[w], "update") = 1
            /\ jobs[cur[w]] = updArg[w]
            /\ jobs[cur[w]] # start[w]
            /\ jobs[cur[w]].State = Outcome(w)
            /\ st[cur[w]].State = start[w].State
            /\ ~Has(trace[w], "succeeded")

\* the handler succeeded and Update failed: Succeeded in memory, Waiting in
\* the store
C13_Witness ==
    \E w \in Workers :
        /\ Returned(w)
        /\ ret[w] = "error" /\ herr[w] = "nil"
        /\ jobs[cur[w]].State = "Succeeded"
        /\ st[cur[w]].State = "Waiting"

\* C14: a worker holds the lock exactly between Lock and Unlock of the lookup
\* and of the deferred decrement, so never inside the handler call or the
\* Update call.
C14_LockScope ==
    \A w \in Workers :
        (mu = w) <=> (pc[w] \in {"find", "deferRead", "deferDecrement"})

\* one worker is inside its handler call while the other holds the lock to
\* finish its own attempt
C14_Witness ==
    \E w \in Workers, v \in Workers :
        /\ pc[w] = "handler"
        /\ v # w /\ mu = v /\ pc[v] = "deferDecrement"
        /\ Has(trace[v], "handler")

\* a comes before b in seq
Before(seq, a, b) ==
    \E i \in 1..Len(seq), k \in 1..Len(seq) : i < k /\ seq[i] = a /\ seq[k] = b

\* the hook of a failed attempt: testJobFailed or testJobRetry
FailureHook(w) == IF Exhausted(start[w]) THEN "failed" ELSE "retry"

\* C15: after a handler failure the record is written, then Update is called,
\* then the failed or retry signal is emitted; the signal never precedes the
\* Update call of the attempt.
C15_SignalAfterUpdate ==
    \A w \in Workers :
        HandlerFailed(w) =>
            /\ Before(trace[w], "mutate", "update")
            /\ Before(trace[w], "update", FailureHook(w))

\* the attempt of worker w took the retry branch and has written the record
Retried(w) == pc[w] \in {"update", "deferLock", "deferRead", "deferDecrement", "returned"}
              /\ Has(trace[w], "retry") /\ Has(trace[w], "mutate")

\* C16: a retry sets Priority to minus (the time of the retry plus backoff(r)),
\* r being Retry before the increment; of two records retried at the same
\* instant the one with the longer backoff has the smaller Priority; an
\* attempt that ends otherwise leaves Priority as it was delivered.
C16_RetryPriority ==
    /\ \A w \in Workers :
          Retried(w) =>
              /\ jobs[cur[w]].Priority = 0 - (now[w] + backoff(start[w].Retry))
              /\ jobs[cur[w]].Retry = start[w].Retry + 1
    /\ \A w \in Workers, v \in Workers :
          (Retried(w) /\ Retried(v) /\ now[w] = now[v]
             /\ backoff(start[w].Retry) >= backoff(start[v].Retry)) =>
              jobs[cur[w]].Priority <= jobs[cur[v]].Priority
    /\ \A w \in Workers :
          (Returned(w) /\ ~Has(trace[w], "retry")) =>
              jobs[cur[w]].Priority = start[w].Priority

\* two records retried at the same instant, one with the longer backoff and
\* the smaller Priority
C16_Witness ==
    \E w \in Workers, v \in Workers :
        /\ Retried(w) /\ Retried(v) /\ now[w] = now[v]
        /\ start[w].Retry > start[v].Retry
        /\ jobs[cur[w]].Priority < jobs[cur[v]].Priority

\* the fields of a record that no attempt writes
Immutable(job) ==
    <<job.ID, job.Topic, job.Rank, job.MaxRetry, job.RetryBackoff, job.RetryWait>>

\* C17: a step of a process call of worker w on record j changes no record
\* but j, none of j's ID, Topic, Rank, MaxRetry, RetryBackoff and RetryWait,
\* and no counter but working[j.Rank], whatever the outcome of the attempt and
\* whatever the other worker is doing.
C17_Frame ==
    [][\A w \in Workers :
         (pc[w] \in ProcessPcs /\ pc'[w] # pc[w]) =>
             /\ \A j \in DOMAIN jobs : j # cur[w] => jobs'[j] = jobs[j]
             /\ Immutable(jobs'[cur[w]]) = Immutable(jobs[cur[w]])
             /\ \A r \in Ranks : r # jobs[cur[w]].Rank => working'[r] = working[r]]_vars

\* an attempt on a record of one rank has ended in an error and has changed
\* the record, while the other worker is inside an attempt on a record of the
\* other rank, which is still counted
C17_Witness ==
    \E w \in Workers, v \in Workers :
        /\ Returned(w) /\ ret[w] = "error" /\ jobs[cur[w]] # start[w]
        /\ pc[v] \in ProcessPcs /\ jobs[cur[v]] = start[v]
        /\ jobs[cur[v]].Rank # jobs[cur[w]].Rank
        /\ working[jobs[cur[v]].Rank] = 1
        /\ working[jobs[cur[w]].Rank] = 0

\* the records of rank r on the channel
Queued(r) == {i \in 1..Len(jobc) : jobs[jobc[i]].Rank = r}

\* the workers inside a process call on a record of rank r
Processing(r) == {w \in Workers : pc[w] \in ProcessPcs /\ jobs[cur[w]].Rank = r}

\* C18: working[r] is the number of delivered records of rank r whose process
\* call has not returned (those on the channel and those a worker holds), so it
\* is never negative, and it is 0 when every worker is idle and the channel is
\* empty.
C18_NoLostDecrement ==
    \A r \in Ranks :
        /\ working[r] = Cardinality(Queued(r)) + Cardinality(Processing(r))
        /\ working[r] >= 0
        /\ ((\A w \in Workers : pc[w] \in {"idle", "done"}) /\ jobc = <<>>) =>
               working[r] = 0

\* both workers are in the deferred function for records of the same rank:
\* one has read the counter under the lock, the other waits for the lock
C18_Witness ==
    \E w \in Workers, v \in Workers :
        /\ pc[w] = "deferDecrement" /\ pc[v] = "deferLock"
        /\ jobs[cur[w]].Rank = jobs[cur[v]].Rank
        /\ loaded[w] = 2
        /\ working[jobs[cur[w]].Rank] = 2

\* C19: a record leaves the channel only by being received, by one worker,
\* which enters process on it; no two workers hold the same record; a call of
\* process invokes the handler at most once and returns once; no worker exits
\* while a record is on the channel, so a record on the channel at close is
\* still received and processed.
C19_ExactlyOneWorker ==
    /\ [][/\ \A w \in Workers :
               (pc[w] = "idle" /\ pc'[w] = "lock") =>
                   /\ jobc # <<>>
                   /\ cur'[w] = Head(jobc)
                   /\ jobc' = Tail(jobc)
                   /\ \A v \in Workers : v # w => (pc'[v] = pc[v] /\ cur'[v] = cur[v])
          /\ Len(jobc') < Len(jobc) =>
               \E w \in Workers : pc[w] = "idle" /\ pc'[w] = "lock"]_vars
    /\ [](\A w \in Workers, v \in Workers :
             (w # v /\ cur[w] # NoJob) => cur[w] # cur[v])
    /\ [](\A w \in Workers :
             /\ cur[w] # NoJob => \A i \in 1..Len(jobc) : jobc[i] # cur[w]
             /\ Count(trace[w], "handler") <= 1
             /\ Returned(w) => Count(trace[w], "decrement") = 1
             /\ pc[w] = "done" => jobc = <<>>)

\* the channel is closed with a record still on it, which neither worker
\* holds: one worker is inside process on the other record, the other worker
\* is at the range statement and has not exited
C19_Witness ==
    \E w \in Workers, v \in Workers :
        /\ closed /\ Len(jobc) = 1 /\ w # v
        /\ pc[w] = "handler" /\ cur[w] # jobc[1]
        /\ pc[v] = "idle" /\ workersWg = Cardinality(Workers)

\* C20: a record created with Retry = 0 and MaxRetry = M, with a registered
\* handler, redelivered while it is Waiting and with every Update succeeding,
\* has its handler invoked at most M + 1 times; after the attempt of the
\* (M + 1)-th invocation it is Succeeded or Failed; it is Failed only after
\* exactly M + 1 invocations, with Retry = M, and Succeeded after Retry + 1.
C20_BoundedRetries ==
    \A j \in DOMAIN jobs :
        /\ calls[j] <= jobs[j].MaxRetry + 1
        /\ jobs[j].Retry <= jobs[j].MaxRetry
        /\ jobs[j].State = "Failed" =>
               (calls[j] = jobs[j].MaxRetry + 1 /\ jobs[j].Retry = jobs[j].MaxRetry)
        /\ jobs[j].State = "Succeeded" => calls[j] = jobs[j].Retry + 1
        /\ (calls[j] = jobs[j].MaxRetry + 1 /\ ~InFlight(j)) =>
               (jobs[j].State \in {"Succeeded", "Failed"} /\ st[j] = jobs[j])

\* a record with the largest MaxRetry has failed every time and is Failed
C20_Witness ==
    \E j \in DOMAIN jobs :
        /\ jobs[j].MaxRetry = MaxRetryLimit
        /\ jobs[j].State = "Failed" /\ st[j] = jobs[j]
        /\ calls[j] = MaxRetryLimit + 1
        /\ ~InFlight(j)
====
